---------------------------- MODULE Spec2Model ----------------------------
(***************************************************************************)
(* pprofsvr: the handler cache (getHandler), the eviction sweep            *)
(* (cleanupProfiles), the request router (the gin handler of main) and    *)
(* the directory listing (DirListRich).                                    *)
(*                                                                         *)
(* Strings are sequences of one-character strings, so that strings.Cut,    *)
(* filepath.Clean and filepath.Join are computed character by character.   *)
(* Time is counted in units of profileTTL (30 minutes): events of the same *)
(* unit carry the same timestamp.                                          *)
(***************************************************************************)
EXTENDS Integers, Sequences, FiniteSets, TLC

\* ------------------------------------------------------------------ bounds
NumProcs == 2      \* requests, each served by a goroutine of its own
MaxTime == 2       \* the clock runs over 0..MaxTime
MaxLen == 6        \* longest generated request path of the Cut specification
MaxEntries == 3    \* most entries of a listed directory
MaxSize == 1       \* file sizes run over 0..MaxSize

\* ------------------------------------------------------- program constants
profileTTL == 1    \* 30 * time.Minute, the unit of time of this model

\* ----------------------------------------------------------------- strings
Marker == <<"/", "u", "i">>
Slash == <<"/">>
Dot == <<".">>
DotDot == <<".", ".">>
repoPath == Dot

\* strings.HasPrefix(s[i:], sep), i counted from 1
MatchAt(s, sep, i) ==
    /\ i + Len(sep) - 1 <= Len(s)
    /\ \A j \in 1..Len(sep) : s[i + j - 1] = sep[j]

\* strings.Index(s, sep) + 1; 0 when sep does not occur
IndexLast(s, sep) ==
    LET hits == {i \in 1..Len(s) : MatchAt(s, sep, i)}
    IN  IF hits = {} THEN 0 ELSE CHOOSE i \in hits : \A j \in hits : j <= i

Index(s, sep) ==
    LET hits == {i \in 1..Len(s) : MatchAt(s, sep, i)}
    IN  IF hits = {} THEN 0 ELSE CHOOSE i \in hits : \A j \in hits : i <= j

\* strings.Cut(s, sep): before, after, found
Cut(s, sep) ==
    LET i == Index(s, sep)
    IN  IF i = 0
        THEN [before |-> s, after |-> <<>>, found |-> FALSE]
        ELSE [before |-> SubSeq(s, 1, i - 1),
              after |-> SubSeq(s, i + Len(sep), Len(s)),
              found |-> TRUE]

\* if after == "" { after = "/" }
SubRouteRaw(after) == after

SubRoute(after) == IF after = <<>> THEN Slash ELSE after

\* the segments of a path: the text between slashes, empty ones dropped
RECURSIVE Segs(_, _, _)
Segs(s, i, cur) ==
    IF i > Len(s)
    THEN IF cur = <<>> THEN <<>> ELSE <<cur>>
    ELSE IF s[i] = "/"
         THEN (IF cur = <<>> THEN <<>> ELSE <<cur>>) \o Segs(s, i + 1, <<>>)
         ELSE Segs(s, i + 1, Append(cur, s[i]))

\* filepath.Clean on the segments: "." dropped, ".." removes the segment
\* before it, is dropped at the root of a rooted path and kept otherwise
RECURSIVE CleanSegs(_, _, _)
CleanSegs(segs, stack, rooted) ==
    IF segs = <<>> THEN stack
    ELSE LET h == Head(segs) t == Tail(segs)
         IN  IF h = Dot THEN CleanSegs(t, stack, rooted)
             ELSE IF h = DotDot
                  THEN IF stack # <<>> /\ stack[Len(stack)] # DotDot
                       THEN CleanSegs(t, SubSeq(stack, 1, Len(stack) - 1), rooted)
                       ELSE IF rooted THEN CleanSegs(t, stack, rooted)
                            ELSE CleanSegs(t, Append(stack, DotDot), rooted)
                  ELSE CleanSegs(t, Append(stack, h), rooted)

RECURSIVE JoinSegs(_)
JoinSegs(segs) ==
    IF segs = <<>> THEN <<>>
    ELSE IF Len(segs) = 1 THEN Head(segs)
         ELSE Head(segs) \o Slash \o JoinSegs(Tail(segs))

\* filepath.Clean / path.Clean
Clean(s) ==
    LET rooted == s # <<>> /\ s[1] = "/"
        body == JoinSegs(CleanSegs(Segs(s, 1, <<>>), <<>>, rooted))
    IN  IF rooted THEN Slash \o body
        ELSE IF body = <<>> THEN Dot ELSE body

\* filepath.Join(a, b): empty elements ignored, the rest joined and cleaned
Join(a, b) ==
    IF a = <<>> /\ b = <<>> THEN <<>>
    ELSE IF b = <<>> THEN Clean(a)
         ELSE IF a = <<>> THEN Clean(b)
              ELSE Clean(a \o Slash \o b)

\* http.Dir(repoPath).Open(name): the name is cleaned as a rooted path
\* before it is joined to the root, so it never leaves the root
DirOpenPath(name) == Join(repoPath, Clean(Slash \o name))


\* ------------------------------------------------------------- file system
\* The served tree (repoPath = "."): regular files a and b, directories d
\* and uid, and a regular file s beside the root, outside it.
FA == <<"a">>
FB == <<"b">>
FOut == <<".", ".", "/", "s">>
DirD == <<"d">>
DirUid == <<"u", "i", "d">>

RegularFiles == {FA, FB, FOut}
Directories == {Dot, DirD, DirUid}
Keys == RegularFiles \cup Directories

\* os.Stat(fp): what the path names
Kind(f) ==
    IF f \in RegularFiles THEN "file"
    ELSE IF f \in Directories THEN "dir" ELSE "none"

\* the routes of driver.HTTPServerArgs.Handlers
RouteTop == <<"/", "t", "o", "p">>
HandlerKeys == {Slash, RouteTop}

\* request paths
PathA == <<"/", "a">>
PathB == <<"/", "b">>
PathD == <<"/", "d", "/">>
PathUid == <<"/", "u", "i", "d", "/">>
PathMissing == <<"/", "m">>
PathRoot == Slash
PathOut == <<"/", ".", ".", "/", "s">>
Ui(p, sub) == p \o Marker \o sub

\* the files a behaviour modifies, and those each specification requests
Mutable == {FA}
CacheFiles == {FA, FB}
RouterFiles == {FA, FOut}
CachePaths == {Ui(PathA, Slash), Ui(PathB, Slash)}
RouterPaths ==
    {PathA, PathD, PathUid, PathMissing, PathRoot, PathOut,
     Ui(PathA, <<>>), Ui(PathA, Slash), Ui(PathA, RouteTop),
     Ui(PathA, <<"/", "x">>), Ui(PathA, RouteTop \o Slash),
     Ui(PathA, Slash \o RouteTop),
     Ui(PathMissing, Slash), Ui(PathOut, Slash)}

\* ------------------------------------------------------------------ state
VARIABLES
    now,         \* time.Now()
    mtime,       \* the modification time of every regular file
    profileMap,  \* profileMap: key -> *PProfHandler, NoEntry when absent
    mu,          \* mu: 0 when free, else the goroutine holding it
    req,         \* one record per request goroutine
    spc,         \* cleanupProfiles: "sleep", "range" or "del"
    todo,        \* keys the running Range has not visited yet
    scur,        \* the key the Range callback is about to delete
    swept,       \* the entries the sweep removed, each with its age then
    page,        \* the directory listing DirListRich rendered, if any
    began        \* who held mu when the running Range began (0: nobody)

vars == <<now, mtime, profileMap, mu, req, spc, todo, scur, swept, page,
          began>>

Procs == 1..NumProcs
Times == 0..MaxTime

\* type PProfHandler struct { args; time }: id names the handler set (args)
\* by the request that built it, srcm is the file's modification time when
\* driver.PProf read it
NoEntry == [id |-> 0, time |-> 0, srcm |-> 0]

\* the entry of a request served before the behaviour begins
BootId == NumProcs + 1
Boot == [id |-> BootId, time |-> 0, srcm |-> 0]

Outcome(t, arg) == [t |-> t, arg |-> arg]

\* a request: the router's locals (path, before, after, marker), those of
\* getHandler (fp, info, ph), what getHandler returned (ret, err), the
\* response (out), and the record of the call: how the result was got,
\* the entry the first Load found (old) and its time (oldt), the entry
\* Delete removed (rem), whether driver.PProf had never been invoked for
\* the key when the call began (cold), who held mu then (during)
IdleReq ==
    [pc |-> "idle", path |-> <<>>, before |-> <<>>, after |-> <<>>,
     marker |-> FALSE, fp |-> <<>>, info |-> 0, ph |-> NoEntry,
     ret |-> NoEntry, err |-> "", how |-> "", old |-> 0, oldt |-> 0,
     rem |-> 0, cold |-> FALSE, during |-> 0, out |-> <<>>]

ModTime(f) == IF f \in DOMAIN mtime THEN mtime[f] ELSE 0

\* the key of the entry named id
KeyOf(id) == IF id \in Procs THEN req[id].fp ELSE FA

\* the entries removed from profileMap: by the stale path, by the sweep
Deleted == {req[p].rem : p \in Procs} \ {0}
Swept == {e.id : e \in swept}

\* the invocations of driver.PProf for key k (each named by its request,
\* the one before the behaviour by BootId), those that failed, and the
\* number of entries of k removed from profileMap
Renders(k) ==
    {p \in Procs : /\ req[p].fp = k
                   /\ \/ req[p].pc \in {"pprof", "store"}
                      \/ req[p].how = "built"
                      \/ req[p].err = "pprof"}
        \cup {i \in {BootId} : /\ k = FA
                               /\ \/ profileMap[FA].id = BootId
                                  \/ BootId \in Deleted \cup Swept}
Failures(k) == {p \in Procs : req[p].fp = k /\ req[p].err = "pprof"}
Removals(k) ==
    Cardinality({p \in Procs : req[p].fp = k /\ req[p].rem # 0})
        + Cardinality({e \in swept : KeyOf(e.id) = k})

\* no directory listing has been rendered
NoPage == [sort |-> "", dirs |-> <<>>, rows |-> <<>>]

\* the state after start-up, but for profileMap
InitRest ==
    /\ now = 0
    /\ mtime = [f \in RegularFiles |-> 0]
    /\ mu = 0
    /\ req = [p \in Procs |-> IdleReq]
    /\ spc = "sleep"
    /\ todo = {}
    /\ scur = <<>>
    /\ swept = {}
    /\ page = NoPage
    /\ began = 0

\* the cache is empty at start-up
InitCold == InitRest /\ profileMap = [k \in Keys |-> NoEntry]

\* the cache is empty, or holds the entry of an earlier request for a
Init ==
    /\ InitRest
    /\ profileMap \in {[k \in Keys |-> NoEntry],
                      [k \in Keys |-> IF k = FA THEN Boot ELSE NoEntry]}

\* ------------------------------------------------------------------ router
\* info.ModTime().After(ph.time)
IsStaleBefore(info, ph) == info < ph.time

IsStale(info, ph) == info > ph.time

\* mu.Lock() returns once mu is free
MuAlwaysFree(m) == TRUE

MuFree(m) == m = 0

\* the re-check under mu: if v, loaded := profileMap.Load(fp); loaded
RecheckNever(v) == FALSE

RecheckHit(v) == v # NoEntry

\* time.Since(ph.time) > profileTTL
ExpiredOrEqual(e, t) == t - e.time >= profileTTL

Expired(e, t) == t - e.time > profileTTL

\* defer mu.Unlock(): mu after getHandler returned
UnlockForgotten(m) == m

Unlock(m) == 0

\* what profileMap holds after driver.PProf returned an error
MapAfterFailStored(m, k, ph) == [m EXCEPT ![k] = ph]

MapAfterFail(m, k, ph) == m

\* fileServer.ServeHTTP on what the path names
FileServer(kind) == Outcome(IF kind = "dir" THEN "listing" ELSE "file", <<>>)

\* c.Redirect(http.StatusFound, c.Request.URL.Path+"/ui/")
RedirectBare(path) == Outcome("redirect", path \o Marker)

Redirect(path) == Outcome("redirect", path \o Marker \o Slash)

\* the router after getHandler returned: r is the request, e the error
RespondAlwaysRedirect(r, e) ==
    IF r.marker THEN <<Outcome("handler", SubRoute(r.after))>>
    ELSE <<Redirect(r.path), FileServer("file")>>

Respond(r, e) ==
    IF e # ""
    THEN <<Outcome("500", <<>>)>>
    ELSE IF r.marker
         THEN IF SubRoute(r.after) \in HandlerKeys
              THEN <<Outcome("handler", SubRoute(r.after))>>
              ELSE <<>>
         ELSE <<Redirect(r.path), FileServer("file")>>

\* return from getHandler into the router, which answers the request
Return(r, entry, e, how) ==
    [r EXCEPT !.pc = "done", !.ph = NoEntry, !.ret = entry, !.err = e,
              !.how = how, !.out = Respond(r, e)]

\* the gin handler up to its call of getHandler
Route(s) ==
    LET c == Cut(s, Marker)
        r == [IdleReq EXCEPT !.path = s, !.before = c.before,
                             !.after = c.after, !.marker = c.found]
        opened == Kind(DirOpenPath(s))
    IN  IF c.found
        THEN [r EXCEPT !.pc = "stat", !.fp = Join(repoPath, c.before)]
        ELSE IF opened = "none"
             THEN [r EXCEPT !.pc = "done", !.out = <<Outcome("404", <<>>)>>]
             ELSE IF opened = "dir"
                  THEN [r EXCEPT !.pc = "done", !.out = <<FileServer("dir")>>]
                  ELSE [r EXCEPT !.pc = "stat",
                                 !.fp = Join(repoPath, c.before)]

\* info, err := os.Stat(fp), the first statement of getHandler
Stat(r) ==
    IF Kind(r.fp) = "none"
    THEN Return(r, NoEntry, "stat", "")
    ELSE [r EXCEPT !.pc = "load", !.info = ModTime(r.fp),
                   !.cold = (Renders(r.fp) = {}), !.during = mu]

\* request p arrives (requests are numbered in the order of their arrival)
\* and runs up to the first Load of getHandler, or to its response when it
\* does not call getHandler
Request(p, s) ==
    /\ req[p].pc = "idle"
    /\ IF p = 1 THEN TRUE ELSE req[p - 1].pc # "idle"
    /\ req' = [req EXCEPT ![p] =
          IF Route(s).pc = "stat" THEN Stat(Route(s)) ELSE Route(s)]
    /\ UNCHANGED <<now, mtime, profileMap, mu, spc, todo, scur, swept, page, began>>

\* -------------------------------------------------------------- getHandler
\* the first profileMap.Load(fp) and the comparison of the times
Load(p) ==
    LET r == req[p]
        v == profileMap[r.fp]
    IN  /\ r.pc = "load"
        /\ req' = [req EXCEPT ![p] =
              IF v = NoEntry THEN [r EXCEPT !.pc = "lock"]
              ELSE IF IsStale(r.info, v)
                   THEN [r EXCEPT !.pc = "delete", !.old = v.id,
                                  !.oldt = v.time]
                   ELSE Return([r EXCEPT !.old = v.id, !.oldt = v.time],
                               v, "", "fast")]
        /\ UNCHANGED <<now, mtime, profileMap, mu, spc, todo, scur, swept, page, began>>

\* profileMap.Delete(fp): removes whatever the key holds now
Delete(p) ==
    LET r == req[p]
    IN  /\ r.pc = "delete"
        /\ profileMap' = [profileMap EXCEPT ![r.fp] = NoEntry]
        /\ req' = [req EXCEPT ![p] =
              [r EXCEPT !.pc = "lock", !.rem = profileMap[r.fp].id]]
        /\ UNCHANGED <<now, mtime, mu, spc, todo, scur, swept, page, began>>

\* mu.Lock(), the re-check, and on a miss the call of driver.PProf, which
\* opens the file
Lock(p) ==
    LET r == req[p]
        v == profileMap[r.fp]
    IN  /\ r.pc = "lock"
        /\ MuFree(mu)
        /\ IF RecheckHit(v)
           THEN /\ req' = [req EXCEPT ![p] = Return(r, v, "", "recheck")]
                /\ mu' = mu
           ELSE /\ mu' = p
                /\ req' = [req EXCEPT ![p] =
                      [r EXCEPT !.pc = "pprof",
                                !.ph = [id |-> p, time |-> 0,
                                        srcm |-> ModTime(r.fp)]]]
        /\ UNCHANGED <<now, mtime, profileMap, spc, todo, scur, swept, page, began>>

\* driver.PProf returns an error: return nil, err (mu released by the defer)
PProfFail(p) ==
    LET r == req[p]
    IN  /\ r.pc = "pprof"
        /\ mu' = Unlock(mu)
        /\ profileMap' = MapAfterFail(profileMap, r.fp, r.ph)
        /\ req' = [req EXCEPT ![p] = Return(r, NoEntry, "pprof", "")]
        /\ UNCHANGED <<now, mtime, spc, todo, scur, swept, page, began>>

\* the HTTPServer callback: ph.time = time.Now(); ph.args = args.
\* driver.PProf reaches it only for a profile it could read: a directory
\* is none.
HTTPServer(p) ==
    LET r == req[p]
    IN  /\ r.pc = "pprof"
        /\ Kind(r.fp) = "file"
        /\ req' = [req EXCEPT ![p] = [r EXCEPT !.pc = "store", !.ph.time = now]]
        /\ UNCHANGED <<now, mtime, profileMap, mu, spc, todo, scur, swept, page, began>>

\* profileMap.Store(fp, ph); return ph, nil (mu released by the defer)
Store(p) ==
    LET r == req[p]
    IN  /\ r.pc = "store"
        /\ profileMap' = [profileMap EXCEPT ![r.fp] = r.ph]
        /\ mu' = Unlock(mu)
        /\ req' = [req EXCEPT ![p] = Return(r, r.ph, "", "built")]
        /\ UNCHANGED <<now, mtime, spc, todo, scur, swept, page, began>>

\* --------------------------------------------------------- cleanupProfiles
\* time.Sleep is over: profileMap.Range starts; keys outside files hold
\* no entry in the specification, visiting them does nothing
SweepStart(files) ==
    /\ spc = "sleep"
    /\ spc' = "range"
    /\ todo' = files
    /\ began' = mu
    /\ UNCHANGED <<now, mtime, profileMap, mu, req, scur, swept, page>>

\* the callback of Range on key k, with the value the key holds now
SweepVisit(k) ==
    /\ spc = "range"
    /\ k \in todo
    /\ todo' = todo \ {k}
    /\ IF profileMap[k] # NoEntry /\ Expired(profileMap[k], now)
       THEN /\ spc' = "del"
            /\ scur' = k
       ELSE /\ spc' = IF todo' = {} THEN "sleep" ELSE "range"
            /\ scur' = scur
    /\ began' = IF spc' = "sleep" THEN 0 ELSE began
    /\ UNCHANGED <<now, mtime, profileMap, mu, req, swept, page>>

\* profileMap.Delete(key) in the callback
SweepDelete ==
    LET v == profileMap[scur]
    IN  /\ spc = "del"
        /\ profileMap' = [profileMap EXCEPT ![scur] = NoEntry]
        /\ swept' = IF v = NoEntry THEN swept
                    ELSE swept \cup {[id |-> v.id, age |-> now - v.time,
                                      began |-> began, held |-> mu]}
        /\ spc' = IF todo = {} THEN "sleep" ELSE "range"
        /\ scur' = <<>>
        /\ began' = IF spc' = "sleep" THEN 0 ELSE began
        /\ UNCHANGED <<now, mtime, mu, req, todo, page>>

\* ------------------------------------------------------------ environment
Tick ==
    /\ now < MaxTime
    /\ now' = now + 1
    /\ UNCHANGED <<mtime, profileMap, mu, req, spc, todo, scur, swept, page, began>>

\* a file is written, or its times are set (os.Chtimes), to a later time
Touch(f, m) ==
    /\ m > mtime[f]
    /\ mtime' = [mtime EXCEPT ![f] = m]
    /\ UNCHANGED <<now, profileMap, mu, req, spc, todo, scur, swept, page, began>>

Handler(p) ==
    \/ Load(p)
    \/ Delete(p)
    \/ Lock(p)
    \/ PProfFail(p)
    \/ HTTPServer(p)
    \/ Store(p)

\* the sweep and the environment of the files a specification requests
Background(files) ==
    \/ SweepStart(files)
    \/ \E k \in files : SweepVisit(k)
    \/ SweepDelete
    \/ Tick
    \/ \E f \in files \cap Mutable : \E m \in Times : Touch(f, m)

\* the handler cache under concurrent requests
Next ==
    \/ \E p \in Procs : \E s \in CachePaths : Request(p, s)
    \/ \E p \in Procs : Handler(p)
    \/ Background(CacheFiles)

Spec == Init /\ [][Next]_vars

\* the steps of getHandler that wait for nothing but the scheduler and
\* the return of driver.PProf
Running(p) ==
    \/ Load(p)
    \/ Delete(p)
    \/ PProfFail(p)
    \/ HTTPServer(p)
    \/ Store(p)

\* the handler cache when every call of driver.PProf returns, the
\* goroutines of the requests are scheduled, and mu.Lock is fair
\* (sync.Mutex hands the lock to a waiter that starves)
Fairness ==
    /\ \A p \in Procs : WF_vars(Running(p))
    /\ \A p \in Procs : SF_vars(Lock(p))

SpecLive == Init /\ [][Next]_vars /\ Fairness

\* the router: one request at a time, over every kind of path
OneAtATime(p) == IF p = 1 THEN TRUE ELSE req[p - 1].pc = "done"

NextRouter ==
    \/ \E p \in Procs : \E s \in RouterPaths : OneAtATime(p) /\ Request(p, s)
    \/ \E p \in Procs : Handler(p)
    \/ Background(RouterFiles)

SpecRouter == InitCold /\ [][NextRouter]_vars

\* strings.Cut on every short path over the marker's characters
CutAlphabet == {"/", "u", "i", "a"}
ReportProf == <<"/", "r", "e", "p", "o", "r", "t", ".", "p", "r", "o", "f">>
RouteGraph == <<"/", "g", "r", "a", "p", "h">>
ReportGraph == Ui(ReportProf, RouteGraph)
ReportUi == Ui(ReportProf, <<>>)
CutInputs ==
    UNION {[1..n -> CutAlphabet] : n \in 0..MaxLen}
        \cup {ReportGraph, ReportUi}

NextCut == req[1].pc = "idle" /\ \E s \in CutInputs : Request(1, s)

SpecCut == InitCold /\ [][NextCut]_vars

\* -------------------------------------------------------------- DirListRich
\* the entries dir.Readdir(-1) may return: files a and b and directory d,
\* each with a size and a modification time
EntryNames == {FA, FB, DirD}
Sizes == 0..MaxSize
Entry(name, size, mod) ==
    [name |-> name, size |-> size, mod |-> mod,
     dir |-> (name \in Directories)]
Entries == {Entry(n, z, m) : n \in EntryNames, z \in Sizes, m \in Times}
Readdirs ==
    UNION {
      {[i \in 1..n |-> Entry(names[i], attrs[i][1], attrs[i][2])] :
          names \in {g \in [1..n -> EntryNames] :
                       \A i, j \in 1..n : g[i] = g[j] => i = j},
          attrs \in [1..n -> Sizes \X Times]} :
      n \in 0..MaxEntries}

\* the values of the sort query parameter: name, size, anything else
SortKeys == {"name", "size", ""}

\* s < t on strings: byte-wise lexicographic
CharRank(c) == CHOOSE i \in 1..4 : <<"a", "b", "d", "/">>[i] = c
RECURSIVE StrLess(_, _)
StrLess(a, b) ==
    IF b = <<>> THEN FALSE
    ELSE IF a = <<>> THEN TRUE
         ELSE IF Head(a) = Head(b) THEN StrLess(Tail(a), Tail(b))
              ELSE CharRank(Head(a)) < CharRank(Head(b))

\* the less function sort.Slice is given for each value of sort
LessOldestFirst(sortBy, x, y) ==
    IF sortBy = "name" THEN StrLess(x.name, y.name)
    ELSE IF sortBy = "size" THEN x.size < y.size
         ELSE x.mod < y.mod

Less(sortBy, x, y) ==
    IF sortBy = "name" THEN StrLess(x.name, y.name)
    ELSE IF sortBy = "size" THEN x.size < y.size
         ELSE x.mod > y.mod

\* s is in the order of less: no element is less than one before it
Ordered(sortBy, s) ==
    \A i, j \in 1..Len(s) : i < j => ~Less(sortBy, s[j], s[i])

\* sort.Slice(dirs, less): not stable, so any arrangement of dirs in the
\* order of less may result
SortSlice(dirs, sortBy) ==
    {[i \in 1..Len(dirs) |-> dirs[f[i]]] :
        f \in {g \in [1..Len(dirs) -> 1..Len(dirs)] :
                  \A i, j \in 1..Len(dirs) : g[i] = g[j] => i = j}}
      \cap {s \in [1..Len(dirs) -> Entries] : Ordered(sortBy, s)}

IsDir(e) == e.dir
IsFile(e) == ~e.dir

\* the rows myHTMLTemplate writes for .Files: a first range over the
\* directories, a second over the files
TemplateRows(files) == SelectSeq(files, IsDir) \o SelectSeq(files, IsFile)

\* DirListRich serves one listing
DirList(sortBy, dirs) ==
    /\ page = NoPage
    /\ \E files \in SortSlice(dirs, sortBy) :
          page' = [sort |-> sortBy, dirs |-> dirs,
                   rows |-> TemplateRows(files)]
    /\ UNCHANGED <<now, mtime, profileMap, mu, req, spc, todo, scur, swept, began>>

NextList ==
    page = NoPage /\ \E sortBy \in SortKeys : \E dirs \in Readdirs :
                        DirList(sortBy, dirs)

SpecList == InitCold /\ [][NextList]_vars

\* ------------------------------------------------------------------ claims
Done(p) == req[p].pc = "done"
Routed(p) == req[p].pc # "idle"
\* getHandler was called by request p and has returned
Called(p) == Done(p) /\ (req[p].how # "" \/ req[p].err # "")
HasMarkerAt(s, i) == i + 2 <= Len(s) /\ SubSeq(s, i, i + 2) = <<"/", "u", "i">>

\* the callers of key k that began before driver.PProf was ever invoked
\* for k: the concurrent callers of a cold key
Cohort(k) == {p \in Procs : req[p].cold /\ req[p].fp = k}
\* the build that was going on when request p began is still going on
StillBuilding(p) ==
    /\ req[p].during # 0
    /\ req[req[p].during].pc \in {"pprof", "store"}

C2_StaleRebuilds ==
    \A p \in Procs :
        LET r == req[p]
        IN  (r.old # 0 /\ r.info > r.oldt /\ r.pc # "idle") =>
            /\ r.pc # "delete" => profileMap[r.fp].id # r.old
            /\ r.ret.id # r.old
            /\ Done(p) =>
                /\ p \in Renders(r.fp)
                /\ r.err \in {"", "pprof"}
                /\ r.err = "" => r.how = "built" /\ r.ret.id = p
                /\ r.err = "" => r.ret.srcm >= r.info

\* a call found the entry of an earlier call stale and returned its own
C2_Witness ==
    \E p \in Procs :
        /\ Done(p) /\ req[p].old \in Procs /\ req[p].info > req[p].oldt
        /\ req[p].how = "built" /\ req[p].rem = req[p].old

\* C3: a cache entry is reused only while the file's current modification
\* time equals the one the file had when the entry's handlers were built;
\* any mismatch makes the next getHandler rebuild.
C3_ReuseOnlyIfUnchanged ==
    \A p \in Procs :
        (Done(p) /\ req[p].how \in {"fast", "recheck"}) =>
            req[p].ret.srcm = req[p].info

\* C4: when driver.PProf fails during getHandler(K) nothing is stored for K,
\* mu is released and the error is returned; the next getHandler(K) that
\* finds no entry invokes driver.PProf again.
C4_FailureNotCached ==
    [][\A p \in Procs :
          /\ (req[p].pc = "pprof" /\ req'[p].pc = "done") =>
                /\ req'[p].err = "pprof"
                /\ req'[p].ret = NoEntry
                /\ req'[p].out = <<[t |-> "500", arg |-> <<>>]>>
                /\ profileMap' = profileMap
                /\ profileMap[req[p].fp] = NoEntry
                /\ mu = p /\ mu' = 0
          /\ (req[p].pc = "lock" /\ req'[p].pc # "lock"
                /\ Failures(req[p].fp) # {}
                /\ profileMap[req[p].fp] = NoEntry) =>
                /\ req'[p].pc = "pprof"
                /\ p \in Renders(req[p].fp)']_vars

\* after a failed build for a key, a second call is invoking driver.PProf
\* for it
C4_Witness ==
    \E p, q \in Procs :
        /\ Done(p) /\ req[p].err = "pprof"
        /\ req[q].fp = req[p].fp /\ req[q].pc = "pprof"
        /\ mu = q
        /\ profileMap[req[p].fp] = NoEntry

\* C5: the sweep removes the entries older than profileTTL and never one
\* whose age is within profileTTL, also when getHandler replaces the entry
\* of the key between the sweep's age check and its Delete.
C5_SweepRemovesOnlyExpired ==
    \A e \in swept : e.age > profileTTL

\* C6 as stated: while driver.PProf runs for key K, a getHandler call for
\* another key, with or without an entry, is not blocked by K's build.
C6_OtherKeysNotBlocked ==
    \A b, q \in Procs :
        (req[b].pc \in {"pprof", "store"} /\ req[q].pc = "lock"
            /\ req[q].fp # req[b].fp) => mu = 0

\* C6 amended: while driver.PProf runs for key K, the calls that complete
\* are those for another key that holds a valid entry; a call for K, and a
\* call for another key that holds no valid entry, do not complete before
\* the build is over: they wait for mu, which is process-wide.
C6_OnlyValidHitsPassABuild ==
    /\ \A q \in Procs :
          (Called(q) /\ StillBuilding(q)) =>
              /\ req[q].how = "fast"
              /\ req[q].fp # req[req[q].during].fp
    /\ \A q \in Procs :
          (StillBuilding(q) /\ req[q].pc \in {"pprof", "store"}) =>
              q = req[q].during
    /\ \A b \in Procs : req[b].pc \in {"pprof", "store"} => mu = b

\* during the build of one key a call for another key has returned that
\* key's valid entry
C6_Witness ==
    \E b, q \in Procs :
        /\ req[b].pc \in {"pprof", "store"}
        /\ Done(q) /\ req[q].during = b /\ req[q].how = "fast"
        /\ req[q].fp # req[b].fp


\* C7: a path containing "/ui" is split at the first occurrence of the
\* marker into resourcePath (the text before it) and subRoute (the text
\* after it), and an empty subRoute becomes "/"; "/report.prof/ui/graph"
\* gives "/report.prof" and "/graph", "/report.prof/ui" gives "/".
C7_SplitAtFirstMarker ==
    \A p \in Procs :
        LET r == req[p]
        IN  Routed(p) =>
            /\ r.marker = (\E i \in 1..Len(r.path) : HasMarkerAt(r.path, i))
            /\ r.marker =>
                /\ r.before \o <<"/", "u", "i">> \o r.after = r.path
                /\ \A i \in 1..Len(r.before) : ~HasMarkerAt(r.path, i)
                /\ SubRoute(r.after) # <<>>
                /\ r.after # <<>> => SubRoute(r.after) = r.after
                /\ Len(r.path) = Len(r.before) + 3 => SubRoute(r.after) = <<"/">>
            /\ r.path = ReportGraph =>
                r.before = ReportProf /\ SubRoute(r.after) = RouteGraph
            /\ r.path = ReportUi =>
                r.before = ReportProf /\ SubRoute(r.after) = <<"/">>

\* a path that holds the marker twice and ends in it has been split
C7_Witness ==
    /\ Routed(1)
    /\ req[1].path = <<"/", "u", "i", "/", "u", "i">>
    /\ req[1].marker
    /\ req[1].before = <<>>
    /\ req[1].after = <<"/", "u", "i">>

\* what the request path names on disk: the file the router opens for a
\* path without the marker, the resource before the marker otherwise
Resource(r) ==
    IF r.marker THEN Join(repoPath, r.before) ELSE DirOpenPath(r.path)
Responses(r) == {r.out[i].t : i \in 1..Len(r.out)}

\* C8: a request for an existing regular file, by a path without the
\* marker, calls getHandler for that file and then answers with a redirect
\* to requestPath + "/ui/"; when getHandler returns an error the answer is
\* 500 and no redirect is issued.
C8_FileRedirects ==
    \A p \in Procs :
        LET r == req[p]
        IN  (Done(p) /\ ~r.marker /\ Kind(DirOpenPath(r.path)) = "file") =>
            /\ Called(p)
            /\ r.fp = DirOpenPath(r.path)
            /\ IF r.err = ""
               THEN /\ r.out # <<>>
                    /\ r.out[1] = [t |-> "redirect",
                                   arg |-> r.path \o <<"/", "u", "i", "/">>]
                    /\ "500" \notin Responses(r)
               ELSE r.out = <<[t |-> "500", arg |-> <<>>]>>

\* one request for /a was redirected after a build, another was answered
\* 500 because driver.PProf failed
C8_Witness ==
    \E p, q \in Procs :
        /\ Done(p) /\ req[p].path = PathA /\ req[p].how = "built"
        /\ req[p].out[1].t = "redirect"
        /\ Done(q) /\ req[q].path = PathA /\ req[q].err = "pprof"
        /\ req[q].out[1].t = "500"

\* C9: a request whose path names a directory under the root, whatever the
\* directory's name, never calls getHandler and never invokes driver.PProf;
\* it is answered by the directory listing.
C9_DirectoryNeverBuilds ==
    \A p \in Procs :
        LET r == req[p]
        IN  (Done(p) /\ Kind(DirOpenPath(r.path)) = "dir") =>
            /\ ~Called(p)
            /\ \A k \in Keys : p \notin Renders(k)
            /\ r.out = <<[t |-> "listing", arg |-> <<>>]>>

\* C10: a request whose resource does not exist on disk is answered 404 and
\* leaves the cache unchanged, with the marker in the path and without.
C10_MissingIs404 ==
    \A p \in Procs :
        LET r == req[p]
        IN  (Done(p) /\ Kind(Resource(r)) = "none") =>
            /\ r.out = <<[t |-> "404", arg |-> <<>>]>>
            /\ r.how # "built"
            /\ r.rem = 0

\* getHandler returned an entry to a request whose path holds the marker
Dispatching(r) == r.pc = "done" /\ r.marker /\ r.err = "" /\ r.ret # NoEntry

\* C11: when the marker is found and getHandler succeeds but the subRoute
\* is no key of the handler mapping, the router answers 404 and delegates
\* to no handler.
C11_UnknownSubRouteIs404 ==
    \A p \in Procs :
        LET r == req[p]
        IN  (Dispatching(r) /\ SubRoute(r.after) \notin HandlerKeys) =>
            r.out = <<[t |-> "404", arg |-> <<>>]>>

\* C12: the subRoute is normalized before the lookup in the handler
\* mapping: a subRoute that differs from a key only by repeated slashes or
\* a trailing slash is dispatched to the handler of that key.
C12_SubRouteNormalized ==
    \A p \in Procs :
        LET r == req[p]
        IN  (Dispatching(r) /\ Clean(SubRoute(r.after)) \in HandlerKeys) =>
            r.out = <<[t |-> "handler", arg |-> Clean(SubRoute(r.after))]>>

\* the resource part of the request path, joined to the root, lies
\* outside the root
EscapesRoot(r) ==
    LET segs == Segs(Join(repoPath, IF r.marker THEN r.before ELSE r.path),
                     1, <<>>)
    IN  segs # <<>> /\ segs[1] = DotDot

\* C13: a request whose resource part leaves the root by ".." segments is
\* answered 404 and never calls getHandler: no stat, no build and no cache
\* store is made for a path outside the root.
C13_TraversalRejected ==
    \A p \in Procs :
        LET r == req[p]
        IN  (Routed(p) /\ EscapesRoot(r)) =>
            /\ r.pc = "done"
            /\ r.out = <<[t |-> "404", arg |-> <<>>]>>
            /\ ~Called(p)
            /\ \A k \in Keys : p \notin Renders(k) /\ profileMap[k].id # p

\* the rows are in the order the page's sort parameter selects: names
\* ascending, sizes ascending, else modification times descending
RowsOrdered(rows) ==
    \A i, j \in 1..Len(rows) :
        i < j =>
            IF page.sort = "name" THEN ~StrLess(rows[j].name, rows[i].name)
            ELSE IF page.sort = "size" THEN rows[i].size <= rows[j].size
                 ELSE rows[i].mod >= rows[j].mod

C15_RecheckReturnsValid ==
    \A p \in Procs :
        (Done(p) /\ req[p].how = "recheck") =>
            req[p].ret.time >= req[p].info

\* request p is at its first Load and the key holds an entry that the
\* file was not modified after
ValidHit(p) ==
    /\ req[p].pc = "load"
    /\ profileMap[req[p].fp] # NoEntry
    /\ req[p].info <= profileMap[req[p].fp].time

\* C16: a getHandler call that finds a valid entry returns that entry
\* without acquiring mu: its step is enabled whoever holds mu, it leaves mu
\* and the cache as they are, and it ends the call with that entry.
C16_ValidHitTakesNoLock ==
    /\ [](\A p \in Procs : ValidHit(p) => ENABLED Load(p))
    /\ [][\A p \in Procs :
            (ValidHit(p) /\ req'[p] # req[p]) =>
                /\ req'[p].pc = "done"
                /\ req'[p].how = "fast"
                /\ req'[p].err = ""
                /\ req'[p].ret = profileMap[req[p].fp]
                /\ req'[p].out = <<[t |-> "handler", arg |-> <<"/">>]>>
                /\ mu' = mu
                /\ profileMap' = profileMap]_vars

\* a call returned the valid entry of its key while the other request held
\* mu, which it still holds inside driver.PProf
C16_Witness ==
    \E p, b \in Procs :
        /\ mu = b /\ req[b].pc = "pprof"
        /\ req[p].during = b
        /\ Done(p) /\ req[p].how = "fast"
        /\ req[p].ret = profileMap[req[p].fp]
        /\ req[p].info <= req[p].ret.time

\* a step of cleanupProfiles
SweepStep == spc' # spc \/ todo' # todo \/ swept' # swept

\* C17: the sweep never acquires mu and never waits for driver.PProf: each
\* of its steps is enabled whoever holds mu and leaves mu and the requests
\* as they are; its callback goes on to Delete exactly for the entries it
\* finds older than profileTTL, so that a sweep begun during a build runs
\* to its end before the build is over.
C17_SweepTakesNoLock ==
    /\ [](/\ spc = "sleep" => ENABLED SweepStart(CacheFiles)
          /\ spc = "range" => \E k \in todo : ENABLED SweepVisit(k)
          /\ spc = "del" => ENABLED SweepDelete)
    /\ [][SweepStep =>
            /\ mu' = mu
            /\ req' = req
            /\ (spc = "range" /\ spc' = "del") =>
                  /\ profileMap[scur'] # NoEntry
                  /\ now - profileMap[scur'].time > profileTTL
            /\ (spc = "range" /\ spc' # "del") =>
                  \E k \in todo \ todo' :
                      \/ profileMap[k] = NoEntry
                      \/ now - profileMap[k].time <= profileTTL]_vars

\* a Range that began while a request was inside driver.PProf has removed
\* an expired entry and ended, and that request is still building
C17_Witness ==
    \E e \in swept : \E b \in Procs :
        /\ e.began = b /\ e.held = b /\ e.age > profileTTL
        /\ mu = b /\ req[b].pc \in {"pprof", "store"}
        /\ spc = "sleep"

\* C18: every request produces exactly one response outcome (handler
\* dispatch, 404, 500, redirect, directory listing or raw file serving);
\* the file server is reached only for a path that is no regular file, so
\* a request answered with the redirect is not passed to the file server.
C18_OneResponse ==
    \A p \in Procs :
        LET r == req[p]
        IN  Done(p) =>
            /\ Len(r.out) = 1
            /\ "redirect" \in Responses(r) => "file" \notin Responses(r)

\* C19: at every instant at most one invocation of driver.PProf is in
\* progress in the whole process, across all keys, and an entry is stored
\* in profileMap only by the caller that holds mu.
C19_OneBuildAtATime ==
    /\ [](\A p, q \in Procs :
            (req[p].pc \in {"pprof", "store"}
                /\ req[q].pc \in {"pprof", "store"}) => p = q /\ mu = p)
    /\ [][\A k \in Keys :
            (profileMap'[k] # profileMap[k] /\ profileMap'[k] # NoEntry) =>
                /\ mu \in Procs
                /\ req[mu].pc = "store"
                /\ req[mu].fp = k
                /\ profileMap'[k].id = mu
                /\ mu' = 0]_vars

\* a request for one key is inside driver.PProf and holds mu while the
\* request for another key, which has no entry, waits for mu
C19_Witness ==
    \E p, q \in Procs :
        /\ req[p].pc = "pprof" /\ mu = p
        /\ req[q].pc = "lock" /\ req[q].fp # req[p].fp
        /\ profileMap[req[q].fp] = NoEntry
        /\ ~ENABLED Lock(q)

\* C20: when two or more callers invoke getHandler(K) concurrently for a
\* key whose entry is stale because of one modification of the file,
\* driver.PProf is invoked once for that modification, and the stale-path
\* Delete of a caller never removes the entry another caller has just
\* built and stored.
C20_StaleRebuiltOnce ==
    /\ \A p \in Procs : req[p].rem # 0 => req[p].rem = req[p].old
    /\ \A p, q \in Procs :
          (/\ p # q
           /\ req[p].old # 0 /\ req[p].old = req[q].old
           /\ req[p].info > req[p].oldt /\ req[q].info = req[p].info
           /\ Failures(req[p].fp) = {}
           /\ p \in Renders(req[p].fp)) => q \notin Renders(req[q].fp)

\* request q found at its first Load, still in the cache, the entry an
\* earlier request built, and the file has the modification time it had
\* when that entry was built
RepeatCall(q) ==
    /\ req[q].old \in Procs
    /\ Done(req[q].old) /\ req[req[q].old].how = "built"
    /\ req[q].info = req[req[q].old].ret.srcm

\* C22: after a successful getHandler(K), a second getHandler(K) with no
\* modification of the file and no eviction in between is a cache hit: it
\* does not invoke driver.PProf and returns the same entry, whatever the
\* file's modification time is, a time later than the build included.
C22_RepeatCallHits ==
    \A q \in Procs :
        RepeatCall(q) =>
            /\ req[q].pc = "done"
            /\ req[q].how = "fast"
            /\ req[q].ret = req[req[q].old].ret
            /\ q \notin Renders(req[q].fp)

\* request p is inside getHandler
InGetHandler(p) == req[p].pc \in {"load", "delete", "lock", "pprof", "store"}

\* C21: mu is released on every return path of getHandler (re-check hit,
\* build success, build failure), no interleaving of getHandler calls and
\* sweeps deadlocks, and every getHandler call eventually returns, provided
\* every call of driver.PProf returns and mu.Lock is fair.
C21_EveryCallReturns ==
    /\ [](\A p \in Procs : mu = p => req[p].pc \in {"pprof", "store"})
    /\ []((\E p \in Procs : InGetHandler(p)) =>
              \E p \in Procs : ENABLED Handler(p))
    /\ [](spc = "del" => ENABLED SweepDelete)
    /\ \A p \in Procs : InGetHandler(p) ~> Done(p)

\* both requests have returned and mu is free, after one of them waited
\* for mu while the other was building and both went through mu.Lock: one
\* build failed, the other stored its entry
C21_Witness ==
    \E p, q \in Procs :
        /\ Done(p) /\ Done(q) /\ mu = 0
        /\ req[q].during = p
        /\ req[p].err = "pprof"
        /\ req[q].how = "built"
        /\ swept # {}

=============================================================================
